---- MODULE Spec2Model ----
(***************************************************************************)
(* Model of the session / role slice of the portfolio admin panel:         *)
(*   - AuthService (lib/auth.ts): the process-wide cache of identity,      *)
(*     profile and settings, and its asynchronous operations;              *)
(*   - useAuth (hooks/useAuth.ts): per-component view state bound to it;   *)
(*   - the remote provider (sessions, identities, user_profiles,           *)
(*     login_attempts), whose answers are nondeterministic: any remote     *)
(*     call may succeed, report an error or throw.                         *)
(* Every `await` of a remote call is a point where other code may run, so  *)
(* every remote call is split into the step that issues it and the step    *)
(* that consumes its answer.  The continuation of `await authService.X()`  *)
(* runs in the microtask that follows the service's return and is part of  *)
(* the same step.                                                          *)
(***************************************************************************)
EXTENDS Integers, Sequences, FiniteSets, TLC

\* ------------------------------------------------------------------ bounds

\* User-invoked operations (signIn, signOut, createUser) in one behaviour.
MaxOps == 1

\* Provider notifications that no operation of this client caused (token
\* refresh, initial session, user update) in one behaviour.
MaxEnv == 1

\* Undelivered auth-state-change events per hook instance.
MaxEvents == 1

\* Saturation of the remote-call counters.
MaxCount == 2

\* ------------------------------------------------------------- value sets

Null == "none"

\* The identities that sign in.
Users == {"u1", "u2"}

\* The identity an administrator creates with createUser.
NewUsers == {"u3"}

AllUsers == Users \cup NewUsers

Hooks == {"h1", "h2"}

Roles == {"super_admin", "admin", "editor", "user"}

Statuses == {"active", "suspended", "pending", "banned"}

\* A user_profiles row reduced to the attributes the code reads.
UserProfile == [id : AllUsers, role : Roles, status : Statuses]

\* `null` where a UserProfile is expected.
NullProfile == [id |-> Null, role |-> Null, status |-> Null]

\* SystemSettings reduced to the flag the code reads; `null` is set = FALSE.
NullSettings == [set |-> FALSE, global_signup_enabled |-> TRUE]

\* The asynchronous activities: the App mount effect, and per useAuth
\* instance its mount initialisation, its auth-state-change handler, the
\* operation a component invokes through it, and the signup-flag effect of
\* the login page that owns the instance.
App == <<"app", "effect">>

InitOf(h) == <<h, "init">>

EvOf(h) == <<h, "ev">>

OpOf(h) == <<h, "op">>

FlagOf(h) == <<h, "flag">>

Procs == {App} \cup (Hooks \X {"init", "ev", "op", "flag"})

\* ---------------------------------------------------------- pure functions

Bump(n) == IF n < MaxCount THEN n + 1 ELSE n

RoleHierarchy(role) ==
  CASE role = "super_admin" -> 4
    [] role = "admin" -> 3
    [] role = "editor" -> 2
    [] role = "user" -> 1
    [] OTHER -> 0

HasRoleAnyStatus(profile, role) ==
  IF profile = NullProfile
  THEN FALSE
  ELSE RoleHierarchy(profile.role) >= RoleHierarchy(role)

HasRoleStrict(profile, role) ==
  IF profile = NullProfile \/ profile.status # "active"
  THEN FALSE
  ELSE RoleHierarchy(profile.role) > RoleHierarchy(role)

\* AuthService.hasRole evaluated on a given cached profile.
HasRoleOf(profile, role) ==
  IF profile = NullProfile \/ profile.status # "active"
  THEN FALSE
  ELSE RoleHierarchy(profile.role) >= RoleHierarchy(role)

UpdateRolesNoStatus(userProfile) ==
  IF userProfile = NullProfile
  THEN [isSuperAdmin |-> FALSE, isAdmin |-> FALSE, isEditor |-> FALSE]
  ELSE [isSuperAdmin |-> userProfile.role = "super_admin",
        isAdmin |-> userProfile.role \in {"super_admin", "admin"},
        isEditor |-> userProfile.role \in {"super_admin", "admin", "editor"}]

UpdateRolesEditorOnly(userProfile) ==
  IF userProfile = NullProfile \/ userProfile.status # "active"
  THEN [isSuperAdmin |-> FALSE, isAdmin |-> FALSE, isEditor |-> FALSE]
  ELSE [isSuperAdmin |-> userProfile.role = "super_admin",
        isAdmin |-> userProfile.role \in {"super_admin", "admin"},
        isEditor |-> userProfile.role = "editor"]

UpdateRolesAdminOnly(userProfile) ==
  IF userProfile = NullProfile \/ userProfile.status # "active"
  THEN [isSuperAdmin |-> FALSE, isAdmin |-> FALSE, isEditor |-> FALSE]
  ELSE [isSuperAdmin |-> userProfile.role = "super_admin",
        isAdmin |-> userProfile.role = "admin",
        isEditor |-> userProfile.role \in {"super_admin", "admin", "editor"}]

\* useAuth.updateRoles: the three flags it sets for a profile.
updateRoles(userProfile) ==
  IF userProfile = NullProfile \/ userProfile.status # "active"
  THEN [isSuperAdmin |-> FALSE, isAdmin |-> FALSE, isEditor |-> FALSE]
  ELSE [isSuperAdmin |-> userProfile.role = "super_admin",
        isAdmin |-> userProfile.role \in {"super_admin", "admin"},
        isEditor |-> userProfile.role \in {"super_admin", "admin", "editor"}]

DefaultProfileEditor(userId) ==
  [id |-> userId, role |-> "editor", status |-> "active"]

\* The row createMissingProfile inserts.
DefaultProfile(userId) == [id |-> userId, role |-> "user", status |-> "active"]

\* loadSystemSettings' conversion of the stored setting_value.
ConvertSettings(value) ==
  [set |-> TRUE,
   global_signup_enabled |-> IF value = "false" THEN FALSE ELSE TRUE]

\* setDefaultSettings.
DefaultSettings == [set |-> TRUE, global_signup_enabled |-> TRUE]

\* ------------------------------------------------------------------ state

VARIABLES
  currentUser,      \* AuthService.currentUser (a user id or Null)
  currentProfile,   \* AuthService.currentProfile
  settings,         \* AuthService.settings
  initialized,      \* AuthService.initialized
  provSession,      \* provider: the user of the stored session, or Null
  accounts,         \* provider: the identities that exist
  rows,             \* provider: user_profiles, user id -> row or NullProfile
  loginAttempts,    \* provider: login_attempts, a set of [email, success]
  mounted,          \* per hook: "new", "mounted" or "unmounted"
  hk,               \* per hook: the useState cells
  events,           \* per hook: auth-state-change events not yet handled
  pc,               \* per activity: the await it is suspended at
  arg,              \* per activity: the user id / role the call works on
  last,             \* the step just taken
  sessionFetches,   \* getSession calls issued by AuthService.initialize
  profileLoads,     \* user_profiles selects issued by AuthService.initialize
  opsLeft,
  envLeft

svc == <<currentUser, currentProfile, settings, initialized>>

remote == <<provSession, accounts, rows, loginAttempts>>

counters == <<sessionFetches, profileLoads>>

vars == <<currentUser, currentProfile, settings, initialized, provSession,
          accounts, rows, loginAttempts, mounted, hk, events,
          pc, arg, last, sessionFetches, profileLoads, opsLeft,
          envLeft>>

\* The role and status u1's row has when a behaviour starts.
InitProfiles ==
  {<<"super_admin", "active">>, <<"admin", "active">>,
   <<"editor", "active">>, <<"admin", "suspended">>}

\* The user_profiles rows a behaviour starts from: u1 has a row, u2 is an
\* identity without one (its row was deleted, or it predates the trigger);
\* createMissingProfile and createUser write the other rows.
InitRows(rs) ==
  [u \in AllUsers |->
     IF u = "u1" THEN [id |-> u, role |-> rs[1], status |-> rs[2]]
     ELSE NullProfile]

\* useState initial values.
HookInit ==
  [session |-> Null, authUser |-> Null, profile |-> NullProfile,
   isSuperAdmin |-> FALSE, isAdmin |-> FALSE, isEditor |-> FALSE,
   loading |-> TRUE, initializing |-> TRUE]

\* A call's parameters (user id / email, role) and the profile row its
\* loadUserProfile obtained so far.
NoArg == [u |-> Null, role |-> Null, loaded |-> NullProfile]

\* The step just taken when it completed an operation: the operation, the
\* activity that ran it, whether the result carries no error, the user it is
\* about, how it ended, and (for a signIn or an initialize) the profile row
\* its loadUserProfile obtained.  A step that leaves its operation suspended at
\* an await is recorded as NoStep.
NoStep ==
  [op |-> "none", p |-> App, fin |-> FALSE, ok |-> FALSE, u |-> Null,
   note |-> "", row |-> NullProfile]

Step(op, p, fin, ok, u, note) ==
  IF fin
  THEN [op |-> op, p |-> p, fin |-> TRUE, ok |-> ok, u |-> u, note |-> note,
        row |-> NullProfile]
  ELSE NoStep

Init ==
  /\ currentUser = Null
  /\ currentProfile = NullProfile
  /\ settings = NullSettings
  /\ initialized = FALSE
  /\ accounts = Users
  /\ provSession \in Users \cup {Null}
  /\ rows \in {InitRows(rs) : rs \in InitProfiles}
  /\ loginAttempts = {}
  /\ mounted = [h \in Hooks |-> "new"]
  /\ hk = [h \in Hooks |-> HookInit]
  /\ events = [h \in Hooks |-> <<>>]
  /\ pc = [p \in Procs |-> "idle"]
  /\ arg = [p \in Procs |-> NoArg]
  /\ last = NoStep
  /\ sessionFetches = 0
  /\ profileLoads = 0
  /\ opsLeft = MaxOps
  /\ envLeft = MaxEnv

\* --------------------------------------------------------- hook state cells

\* The setState calls of one synchronous block are rendered as one update.

SetSessionReinitializes(cells, session) ==
  [cells EXCEPT !.session = session, !.authUser = session,
                !.initializing = TRUE]

\* setSession(session); setAuthUser(session?.user ?? null)
SetSession(cells, session) ==
  [cells EXCEPT !.session = session, !.authUser = session]

\* setProfile(userProfile); updateRoles(userProfile)
SetProfile(cells, userProfile) ==
  [cells EXCEPT !.profile = userProfile,
                !.isSuperAdmin = updateRoles(userProfile).isSuperAdmin,
                !.isAdmin = updateRoles(userProfile).isAdmin,
                !.isEditor = updateRoles(userProfile).isEditor]

SetResolvedLoadingOnly(cells) == [cells EXCEPT !.loading = FALSE]

SetResolvedKeepsLoading(cells) == [cells EXCEPT !.initializing = FALSE]

\* setLoading(false); setInitializing(false)
SetResolved(cells) ==
  [cells EXCEPT !.loading = FALSE, !.initializing = FALSE]

Subscribed == {h \in Hooks : mounted[h] = "mounted"}

\* The provider notifies every subscribed hook of an auth state change.
Notify(session) ==
  /\ \A h \in Subscribed : Len(events[h]) < MaxEvents
  /\ events' = [h \in Hooks |->
                 IF h \in Subscribed THEN Append(events[h], session)
                 ELSE events[h]]

\* hasRole on the cached profile.
hasRole(role) == HasRoleOf(currentProfile, role)

\* ------------------------------------------------------------ route guards

\* What a guard renders from the cells of its own useAuth instance: the
\* loading indicator, its children, or a redirect to the given path.
ProtectedRouteNoWait(cells) ==
  IF ~cells.isAdmin /\ ~cells.isEditor THEN "/admin/login" ELSE "children"

ProtectedRouteAdminOnly(cells) ==
  IF cells.initializing THEN "loading"
  ELSE IF ~cells.isAdmin THEN "/admin/login"
  ELSE "children"

ProtectedRoute(cells) ==
  IF cells.initializing THEN "loading"
  ELSE IF ~cells.isAdmin /\ ~cells.isEditor THEN "/admin/login"
  ELSE "children"

AdminOnlyRouteAllowsEditor(cells) ==
  IF cells.initializing THEN "loading"
  ELSE IF ~cells.isAdmin /\ ~cells.isEditor THEN "/admin"
  ELSE "children"

AdminOnlyRoute(cells) ==
  IF cells.initializing THEN "loading"
  ELSE IF ~cells.isAdmin /\ ~cells.isSuperAdmin THEN "/admin"
  ELSE "children"

SuperAdminOnlyRoute(cells) ==
  IF cells.initializing THEN "loading"
  ELSE IF ~cells.isSuperAdmin THEN "/admin"
  ELSE "children"

\* The same guards in src/App.tsx, which wait on `loading`.
ProtectedRouteOnLoading(cells) ==
  IF cells.loading THEN "loading"
  ELSE IF ~cells.isAdmin /\ ~cells.isEditor THEN "/admin/login"
  ELSE "children"

AdminOnlyRouteOnLoading(cells) ==
  IF cells.loading THEN "loading"
  ELSE IF ~cells.isAdmin /\ ~cells.isSuperAdmin THEN "/admin"
  ELSE "children"

SuperAdminOnlyRouteOnLoading(cells) ==
  IF cells.loading THEN "loading"
  ELSE IF ~cells.isSuperAdmin THEN "/admin"
  ELSE "children"

\* AdminLogin's redirect effect: navigate('/admin') when this holds.
AdminLoginRedirects(cells) ==
  /\ ~cells.loading
  /\ ~cells.initializing
  /\ cells.profile # NullProfile
  /\ (cells.isAdmin \/ cells.isEditor \/ cells.isSuperAdmin)

\* AdminLayout past its loader: navigate('/admin/login') when this holds.
AdminLayoutRedirects(cells) ==
  /\ ~cells.loading
  /\ ~cells.initializing
  /\ (cells.profile = NullProfile \/ (~cells.isAdmin /\ ~cells.isEditor))

\* ------------------------------------------------- AuthService.initialize

\* What the caller of `await authService.initialize()` does when the call
\* returns: the App effect is done; a hook's mount initialisation goes on to
\* its own getSession unless unmounted; an auth-state-change handler sets the
\* profile and flags from the cache and resolves.
InitializeReturns(p) ==
  /\ pc' = [pc EXCEPT ![p] =
              IF p[2] = "init" /\ mounted[p[1]] = "mounted" THEN "h_sess"
              ELSE IF p[2] = "ev" THEN "idle"
              ELSE "done"]
  /\ hk' = IF p[2] = "ev"
           THEN [hk EXCEPT ![p[1]] = SetResolved(SetProfile(@, currentProfile))]
           ELSE hk

InitializeUnguarded == FALSE

\* initialize's guard: `if (this.initialized) return;`
InitializeGuard == initialized

\* App: React.useEffect(() => { authService.initialize(); }, [])
AppMount ==
  /\ pc[App] = "idle"
  /\ pc' = [pc EXCEPT ![App] = IF InitializeGuard THEN "done" ELSE "i_sess"]
  /\ sessionFetches' = IF InitializeGuard THEN sessionFetches
                       ELSE Bump(sessionFetches)
  /\ last' = Step("initialize", App, InitializeGuard, TRUE, Null, "call")
  /\ UNCHANGED <<svc, remote, mounted, hk, events, arg, profileLoads,
                 opsLeft, envLeft>>

\* useAuth's effect: subscribe, and start initialize().
Mount(h) ==
  /\ mounted[h] = "new"
  /\ mounted' = [mounted EXCEPT ![h] = "mounted"]
  /\ pc' = [pc EXCEPT ![InitOf(h)] =
              IF InitializeGuard THEN "h_sess" ELSE "i_sess"]
  /\ sessionFetches' = IF InitializeGuard THEN sessionFetches
                       ELSE Bump(sessionFetches)
  /\ last' = Step("initialize", InitOf(h), InitializeGuard, TRUE, Null, "call")
  /\ UNCHANGED <<svc, remote, hk, events, arg, profileLoads, opsLeft, envLeft>>

\* The effect's cleanup: mounted = false; subscription.unsubscribe().
Unmount(h) ==
  /\ mounted[h] = "mounted"
  /\ mounted' = [mounted EXCEPT ![h] = "unmounted"]
  /\ events' = [events EXCEPT ![h] = <<>>]
  /\ last' = Step("unmount", InitOf(h), TRUE, TRUE, Null, "")
  /\ UNCHANGED <<svc, remote, hk, pc, arg, counters, opsLeft, envLeft>>

InitializeRethrows(p) ==
  /\ UNCHANGED <<initialized, hk>>
  /\ pc' = [pc EXCEPT ![p] = IF p[2] = "ev" THEN "idle" ELSE "done"]
  /\ last' = Step("initialize", p, TRUE, FALSE, Null, "raised")

\* initialize's catch block: mark the service initialized and return.
InitializeCatch(p) ==
  /\ initialized' = TRUE
  /\ InitializeReturns(p)
  /\ last' = Step("initialize", p, TRUE, FALSE, Null, "thrown")

\* initialize: the answer to supabase.auth.getSession().
ISession(p, r) ==
  /\ pc[p] = "i_sess"
  /\ LET session == IF r = "ok" THEN provSession ELSE Null IN
     IF r = "throw"
     THEN /\ InitializeCatch(p)
          /\ UNCHANGED <<currentUser, arg, profileLoads>>
     ELSE IF session # Null
     THEN /\ currentUser' = session
          /\ pc' = [pc EXCEPT ![p] = "i_prof"]
          /\ arg' = [arg EXCEPT ![p] = [NoArg EXCEPT !.u = session]]
          /\ profileLoads' = Bump(profileLoads)
          /\ last' = Step("initialize", p, FALSE, TRUE, session, "session")
          /\ UNCHANGED <<initialized, hk>>
     ELSE /\ pc' = [pc EXCEPT ![p] = "i_set"]
          /\ last' = Step("initialize", p, FALSE, TRUE, Null, "nosession")
          /\ UNCHANGED <<currentUser, initialized, hk, arg, profileLoads>>
  /\ UNCHANGED <<currentProfile, settings, remote, mounted, events,
                 sessionFetches, opsLeft, envLeft>>

\* loadUserProfile: the answer to the user_profiles select.  `after` is
\* where the caller continues once loadUserProfile has returned and `mk`
\* where createMissingProfile's insert is awaited.
LoadUserProfile(p, r, mk, after) ==
  LET userId == arg[p].u IN
  IF r = "ok" /\ rows[userId] # NullProfile
  THEN /\ currentProfile' = rows[userId]
       /\ arg' = [arg EXCEPT ![p].loaded = rows[userId]]
       /\ pc' = [pc EXCEPT ![p] = after]
  ELSE IF r = "ok"
  THEN /\ pc' = [pc EXCEPT ![p] = mk]
       /\ UNCHANGED <<currentProfile, arg>>
  ELSE /\ currentProfile' = NullProfile
       /\ pc' = [pc EXCEPT ![p] = after]
       /\ UNCHANGED arg

CreateMissingProfileAssumesInsert(p, r, after) ==
  LET userId == arg[p].u IN
  /\ rows' = IF r = "ok" /\ rows[userId] = NullProfile
             THEN [rows EXCEPT ![userId] = DefaultProfile(userId)]
             ELSE rows
  /\ currentProfile' = DefaultProfile(userId)
  /\ pc' = [pc EXCEPT ![p] = after]
  /\ UNCHANGED arg

\* createMissingProfile: the answer to getUser and the insert.
CreateMissingProfile(p, r, after) ==
  LET userId == arg[p].u IN
  IF r = "ok" /\ rows[userId] = NullProfile
  THEN /\ rows' = [rows EXCEPT ![userId] = DefaultProfile(userId)]
       /\ currentProfile' = DefaultProfile(userId)
       /\ arg' = [arg EXCEPT ![p].loaded = DefaultProfile(userId)]
       /\ pc' = [pc EXCEPT ![p] = after]
  ELSE /\ pc' = [pc EXCEPT ![p] = after]
       /\ UNCHANGED <<rows, currentProfile, arg>>

IProfile(p, r) ==
  /\ pc[p] = "i_prof"
  /\ LoadUserProfile(p, r, "i_mk", "i_set")
  /\ last' = Step("initialize", p, FALSE, TRUE, arg[p].u, "profile")
  /\ UNCHANGED <<currentUser, settings, initialized, remote, mounted, hk,
                 events, counters, opsLeft, envLeft>>

IMake(p, r) ==
  /\ pc[p] = "i_mk"
  /\ CreateMissingProfile(p, r, "i_set")
  /\ last' = Step("initialize", p, FALSE, TRUE, arg[p].u, "insert")
  /\ UNCHANGED <<currentUser, settings, initialized, provSession, accounts,
                 loginAttempts, mounted, hk, events, counters, opsLeft,
                 envLeft>>

\* loadSystemSettings, then `this.initialized = true` and the return.
ISettings(p, r) ==
  /\ pc[p] = "i_set"
  /\ settings' = IF r \in {"error", "throw"} THEN DefaultSettings
                 ELSE ConvertSettings(r)
  /\ initialized' = TRUE
  /\ InitializeReturns(p)
  /\ arg' = [arg EXCEPT ![p] = NoArg]
  /\ last' = [Step("initialize", p, TRUE, TRUE, arg[p].u, "ready")
              EXCEPT !.row = arg[p].loaded]
  /\ UNCHANGED <<currentUser, currentProfile, remote, mounted, events,
                 counters, opsLeft, envLeft>>

\* ------------------------------------------------------- useAuth: the effect

\* The tail of the mount initialisation (useAuth.ts lines 42-57): under
\* `if (mounted)`, session, profile from the cache, flags, and resolution.
FinishHookInit(h, session, cached) ==
  /\ hk' = IF mounted[h] = "mounted"
           THEN [hk EXCEPT ![h] =
                   SetResolved(SetProfile(SetSession(@, session),
                                          IF session # Null THEN cached
                                          ELSE NullProfile))]
           ELSE hk
  /\ pc' = [pc EXCEPT ![InitOf(h)] = "done"]

\* The mount initialisation's own supabase.auth.getSession() answers.
HSession(h, r) ==
  /\ pc[InitOf(h)] = "h_sess"
  /\ IF r = "throw"
     THEN /\ hk' = IF mounted[h] = "mounted"
                   THEN [hk EXCEPT ![h] = SetResolved(@)] ELSE hk
          /\ pc' = [pc EXCEPT ![InitOf(h)] = "done"]
          /\ last' = Step("hookInit", InitOf(h), TRUE, FALSE, Null, "thrown")
     ELSE IF r = "refresh_error"
     THEN /\ pc' = [pc EXCEPT ![InitOf(h)] = "o_auth"]
          /\ last' = Step("hookInit", InitOf(h), FALSE, FALSE, Null, "refresh")
          /\ UNCHANGED hk
     ELSE /\ FinishHookInit(h, IF r = "ok" THEN provSession ELSE Null,
                            currentProfile)
          /\ last' = Step("hookInit", InitOf(h), TRUE, r = "ok",
                          IF r = "ok" THEN provSession ELSE Null, "resolved")
  /\ UNCHANGED <<svc, remote, mounted, events, arg, counters, opsLeft, envLeft>>

\* The onAuthStateChange callback, up to its first await or its end.  One
\* invocation per hook is in progress at a time.
HandleEvent(h) ==
  /\ mounted[h] = "mounted"
  /\ events[h] # <<>>
  /\ pc[EvOf(h)] = "idle"
  /\ events' = [events EXCEPT ![h] = Tail(@)]
  /\ LET session == Head(events[h]) IN
     /\ IF session = Null
        THEN /\ hk' = [hk EXCEPT ![h] =
                         SetResolved(SetProfile(SetSession(@, Null), NullProfile))]
             /\ UNCHANGED <<pc, sessionFetches>>
        ELSE IF InitializeGuard
        THEN /\ hk' = [hk EXCEPT ![h] =
                         SetResolved(SetProfile(SetSession(@, session),
                                                currentProfile))]
             /\ UNCHANGED <<pc, sessionFetches>>
        ELSE /\ hk' = [hk EXCEPT ![h] = SetSession(@, session)]
             /\ pc' = [pc EXCEPT ![EvOf(h)] = "i_sess"]
             /\ sessionFetches' = Bump(sessionFetches)
     /\ last' = Step("event", EvOf(h), session = Null \/ InitializeGuard, TRUE,
                     session, IF session = Null THEN "nouser" ELSE "call")
  /\ UNCHANGED <<svc, remote, mounted, arg, profileLoads, opsLeft, envLeft>>

\* ------------------------------------------------------------------ signIn

\* useAuth.signIn -> AuthService.signIn: signInWithPassword is issued.
SignInCall(h, u) ==
  /\ mounted[h] = "mounted"
  /\ pc[OpOf(h)] = "idle"
  /\ opsLeft > 0
  /\ opsLeft' = opsLeft - 1
  /\ pc' = [pc EXCEPT ![OpOf(h)] = "s_auth"]
  /\ arg' = [arg EXCEPT ![OpOf(h)] = [NoArg EXCEPT !.u = u]]
  /\ last' = Step("signIn", OpOf(h), FALSE, TRUE, u, "call")
  /\ UNCHANGED <<svc, remote, mounted, hk, events, counters, envLeft>>

SignInFailureClears ==
  /\ currentUser' = Null
  /\ currentProfile' = NullProfile

\* signIn's error and catch branches: the cache is not touched.
SignInFailure == UNCHANGED <<currentUser, currentProfile>>

\* The answer to signInWithPassword.
SAuth(h, r) ==
  LET p == OpOf(h)
      u == arg[p].u IN
  /\ pc[p] = "s_auth"
  /\ IF r = "ok" /\ u \in accounts
     THEN /\ provSession' = u
          /\ Notify(u)
          /\ currentUser' = u
          /\ pc' = [pc EXCEPT ![p] = "s_prof"]
          /\ last' = Step("signIn", p, FALSE, TRUE, u, "authenticated")
          /\ UNCHANGED currentProfile
     ELSE IF r = "throw"
     THEN /\ pc' = [pc EXCEPT ![p] = "idle"]
          /\ last' = Step("signIn", p, TRUE, FALSE, u, "thrown")
          /\ SignInFailure
          /\ UNCHANGED <<provSession, events>>
     ELSE /\ pc' = [pc EXCEPT ![p] = "s_logfail"]
          /\ last' = Step("signIn", p, FALSE, FALSE, u, "rejected")
          /\ SignInFailure
          /\ UNCHANGED <<provSession, events>>
  /\ arg' = [arg EXCEPT ![p] = IF pc'[p] = "idle" THEN NoArg ELSE @]
  /\ UNCHANGED <<settings, initialized, accounts, rows,
                 loginAttempts, mounted, hk, counters, opsLeft, envLeft>>

LogAlwaysSuccess(email, success, r) ==
  loginAttempts' = IF r = "ok"
                   THEN loginAttempts \cup {[email |-> email, success |-> TRUE]}
                   ELSE loginAttempts

\* logLoginAttempt: the insert into login_attempts, whose failure is ignored.
LogLoginAttempt(email, success, r) ==
  loginAttempts' = IF r = "ok"
                   THEN loginAttempts \cup {[email |-> email, success |-> success]}
                   ELSE loginAttempts

\* Rejected sign-in: logLoginAttempt(email, false) answers; signIn returns
\* the error and useAuth.signIn passes it on.
SLogFail(h, r) ==
  LET p == OpOf(h) IN
  /\ pc[p] = "s_logfail"
  /\ LogLoginAttempt(arg[p].u, FALSE, r)
  /\ pc' = [pc EXCEPT ![p] = "idle"]
  /\ arg' = [arg EXCEPT ![p] = NoArg]
  /\ last' = Step("signIn", p, TRUE, FALSE, arg[p].u,
                  IF r = "ok" THEN "logged" ELSE "notlogged")
  /\ UNCHANGED <<svc, provSession, accounts, rows, mounted, hk, events,
                 counters, opsLeft, envLeft>>

SProfile(h, r) ==
  /\ pc[OpOf(h)] = "s_prof"
  /\ LoadUserProfile(OpOf(h), r, "s_mk", "s_log")
  /\ last' = Step("signIn", OpOf(h), FALSE, TRUE, arg[OpOf(h)].u, "profile")
  /\ UNCHANGED <<currentUser, settings, initialized, remote, mounted, hk,
                 events, counters, opsLeft, envLeft>>

SMake(h, r) ==
  /\ pc[OpOf(h)] = "s_mk"
  /\ CreateMissingProfile(OpOf(h), r, "s_log")
  /\ last' = Step("signIn", OpOf(h), FALSE, TRUE, arg[OpOf(h)].u, "insert")
  /\ UNCHANGED <<currentUser, settings, initialized, provSession, accounts,
                 loginAttempts, mounted, hk, events, counters, opsLeft,
                 envLeft>>

\* updateLastLogin and logLoginAttempt(email, true) answer; signIn returns
\* the user and useAuth.signIn sets profile and flags from the cache.
SLog(h, r) ==
  LET p == OpOf(h) IN
  /\ pc[p] = "s_log"
  /\ LogLoginAttempt(arg[p].u, TRUE, r)
  /\ hk' = [hk EXCEPT ![h] = SetProfile(@, currentProfile)]
  /\ pc' = [pc EXCEPT ![p] = "idle"]
  /\ arg' = [arg EXCEPT ![p] = NoArg]
  /\ last' = [Step("signIn", p, TRUE, TRUE, arg[p].u,
                   IF r = "ok" THEN "logged" ELSE "notlogged")
              EXCEPT !.row = arg[p].loaded]
  /\ UNCHANGED <<svc, provSession, accounts, rows, mounted, events,
                 counters, opsLeft, envLeft>>

\* ----------------------------------------------------------------- signOut

\* useAuth.signOut -> AuthService.signOut: supabase.auth.signOut is issued.
SignOutCall(h) ==
  /\ mounted[h] = "mounted"
  /\ pc[OpOf(h)] = "idle"
  /\ opsLeft > 0
  /\ opsLeft' = opsLeft - 1
  /\ pc' = [pc EXCEPT ![OpOf(h)] = "o_auth"]
  /\ last' = Step("signOut", OpOf(h), FALSE, TRUE, Null, "call")
  /\ UNCHANGED <<svc, remote, mounted, hk, events, arg, counters, envLeft>>

SignOutAlwaysClears(r) ==
  /\ currentUser' = Null
  /\ currentProfile' = NullProfile

SignOutKeepsProfile(r) ==
  IF r = "ok"
  THEN /\ currentUser' = Null
       /\ UNCHANGED currentProfile
  ELSE UNCHANGED <<currentUser, currentProfile>>

\* AuthService.signOut on the provider's answer: the cache it leaves.
SignOutCache(r) ==
  IF r = "ok"
  THEN /\ currentUser' = Null
       /\ currentProfile' = NullProfile
  ELSE UNCHANGED <<currentUser, currentProfile>>

\* The answer to supabase.auth.signOut, for useAuth.signOut and for the
\* mount initialisation that signs out on a refresh-token error.
OAuth(p, r) ==
  LET h == p[1] IN
  /\ pc[p] = "o_auth"
  /\ SignOutCache(r)
  /\ IF r = "ok"
     THEN provSession' = Null /\ Notify(Null)
     ELSE UNCHANGED <<provSession, events>>
  /\ IF p[2] = "init"
     THEN FinishHookInit(h, Null, currentProfile')
     ELSE /\ hk' = IF r = "ok"
                   THEN [hk EXCEPT ![h] = SetProfile(SetSession(@, Null),
                                                     NullProfile)]
                   ELSE hk
          /\ pc' = [pc EXCEPT ![p] = "idle"]
  /\ last' = Step(IF p[2] = "init" THEN "hookInit" ELSE "signOut", p, TRUE,
                  r = "ok", Null, r)
  /\ UNCHANGED <<settings, initialized, accounts, rows, loginAttempts,
                 mounted, arg, counters, opsLeft, envLeft>>

\* -------------------------------------------------------------- createUser

\* useAuth.createUser -> AuthService.createUser: the hasRole('admin') check;
\* when it fails the call returns the permission error at once, otherwise
\* supabase.auth.admin.createUser is issued.
CreateUserCall(h, u, role) ==
  LET p == OpOf(h) IN
  /\ mounted[h] = "mounted"
  /\ pc[p] = "idle"
  /\ opsLeft > 0
  /\ opsLeft' = opsLeft - 1
  /\ IF hasRole("admin")
     THEN /\ pc' = [pc EXCEPT ![p] = "c_auth"]
          /\ arg' = [arg EXCEPT ![p] = [NoArg EXCEPT !.u = u, !.role = role]]
          /\ last' = Step("createUser", p, FALSE, TRUE, u, "call")
     ELSE /\ last' = Step("createUser", p, TRUE, FALSE, Null, "denied")
          /\ UNCHANGED <<pc, arg>>
  /\ UNCHANGED <<svc, remote, mounted, hk, events, counters, envLeft>>

\* The answer to supabase.auth.admin.createUser.  A new identity fires the
\* handle_new_user trigger, which inserts its default profile row.
CAuth(h, r) ==
  LET p == OpOf(h)
      u == arg[p].u IN
  /\ pc[p] = "c_auth"
  /\ IF r = "ok" /\ u \notin accounts
     THEN /\ accounts' = accounts \cup {u}
          /\ rows' = [rows EXCEPT ![u] = DefaultProfile(u)]
          /\ pc' = [pc EXCEPT ![p] = "c_upsert"]
          /\ last' = Step("createUser", p, FALSE, TRUE, u, "identity")
     ELSE /\ pc' = [pc EXCEPT ![p] = "idle"]
          /\ last' = Step("createUser", p, TRUE, FALSE, Null,
                          IF r = "throw" THEN "thrown" ELSE "rejected")
          /\ UNCHANGED <<accounts, rows>>
  /\ arg' = [arg EXCEPT ![p] = IF pc'[p] = "idle" THEN NoArg ELSE @]
  /\ UNCHANGED <<svc, provSession, loginAttempts, mounted, hk, events,
                 counters, opsLeft, envLeft>>

\* The answer to the user_profiles upsert, whose error result is not read.
CUpsert(h, r) ==
  LET p == OpOf(h)
      u == arg[p].u IN
  /\ pc[p] = "c_upsert"
  /\ rows' = IF r = "ok"
             THEN [rows EXCEPT ![u] = [id |-> u, role |-> arg[p].role,
                                       status |-> "active"]]
             ELSE rows
  /\ pc' = [pc EXCEPT ![p] = "idle"]
  /\ last' = IF r = "throw"
             THEN Step("createUser", p, TRUE, FALSE, Null, "thrown")
             ELSE Step("createUser", p, TRUE, TRUE, u,
                       IF r = "ok" THEN "written" ELSE "notwritten")
  /\ arg' = [arg EXCEPT ![p] = NoArg]
  /\ UNCHANGED <<svc, provSession, accounts, loginAttempts, mounted, hk,
                 events, counters, opsLeft, envLeft>>

\* ------------------------------------------------------------------ signUp

\* useAuth.signUp -> AuthService.signUp: supabase.auth.signUp is issued.
SignUpCall(h, u) ==
  /\ mounted[h] = "mounted"
  /\ pc[OpOf(h)] = "idle"
  /\ opsLeft > 0
  /\ opsLeft' = opsLeft - 1
  /\ pc' = [pc EXCEPT ![OpOf(h)] = "u_auth"]
  /\ arg' = [arg EXCEPT ![OpOf(h)] = [NoArg EXCEPT !.u = u]]
  /\ last' = Step("signUp", OpOf(h), FALSE, TRUE, u, "call")
  /\ UNCHANGED <<svc, remote, mounted, hk, events, counters, envLeft>>

SignUpRethrows(p) == last' = Step("signUp", p, TRUE, FALSE, Null, "raised")

\* signUp's catch block: { user: null, error }.
SignUpCatch(p) == last' = Step("signUp", p, TRUE, FALSE, Null, "thrown")

\* The answer to supabase.auth.signUp: the identity is registered (the
\* handle_new_user trigger inserts its default row), with a session when the
\* project confirms e-mails automatically ("session") and without one
\* otherwise ("ok"); or the provider rejects the request, or the call throws.
\* The service's cache is not written on any branch.
UAuth(h, r) ==
  LET p == OpOf(h)
      u == arg[p].u IN
  /\ pc[p] = "u_auth"
  /\ IF r \in {"ok", "session"} /\ u \notin accounts
     THEN /\ accounts' = accounts \cup {u}
          /\ rows' = [rows EXCEPT ![u] = DefaultProfile(u)]
          /\ IF r = "session"
             THEN provSession' = u /\ Notify(u)
             ELSE UNCHANGED <<provSession, events>>
          /\ last' = Step("signUp", p, TRUE, TRUE, u, "registered")
     ELSE IF r = "throw"
     THEN /\ SignUpCatch(p)
          /\ UNCHANGED <<provSession, accounts, rows, events>>
     ELSE /\ last' = Step("signUp", p, TRUE, FALSE, Null, "rejected")
          /\ UNCHANGED <<provSession, accounts, rows, events>>
  /\ pc' = [pc EXCEPT ![p] = "idle"]
  /\ arg' = [arg EXCEPT ![p] = NoArg]
  /\ UNCHANGED <<svc, loginAttempts, mounted, hk, counters, opsLeft, envLeft>>

\* --------------------------------------------------------- isSignupEnabled

IsSignupEnabledAlwaysLoads == FALSE

\* isSignupEnabled's guard `if (!this.settings)`: true when settings are
\* cached and nothing is loaded.
IsSignupEnabledGuard == settings.set

\* The value isSignupEnabled returns, and whether it came from the cache
\* alone or after a load.
SignupNote(how, enabled) ==
  IF how = "cached"
  THEN (IF enabled THEN "cached_true" ELSE "cached_false")
  ELSE (IF enabled THEN "loaded_true" ELSE "loaded_false")

\* AdminLogin's effect: authService.isSignupEnabled(), once per mount of the
\* page.  With settings cached it returns settings.global_signup_enabled;
\* otherwise the system_settings select is issued.
IsSignupEnabledCall(h) ==
  LET p == FlagOf(h) IN
  /\ pc[p] = "idle"
  /\ pc' = [pc EXCEPT ![p] = IF IsSignupEnabledGuard THEN "done" ELSE "e_set"]
  /\ last' = Step("isSignupEnabled", p, IsSignupEnabledGuard, TRUE, Null,
                  SignupNote("cached", settings.global_signup_enabled))
  /\ UNCHANGED <<svc, remote, mounted, hk, events, arg, counters, opsLeft,
                 envLeft>>

\* loadSystemSettings answers inside isSignupEnabled, which then returns
\* settings.global_signup_enabled.
ESettings(h, r) ==
  LET p == FlagOf(h) IN
  /\ pc[p] = "e_set"
  /\ settings' = IF r \in {"error", "throw"} THEN DefaultSettings
                 ELSE ConvertSettings(r)
  /\ pc' = [pc EXCEPT ![p] = "done"]
  /\ last' = Step("isSignupEnabled", p, TRUE, TRUE, Null,
                  SignupNote("loaded", settings'.global_signup_enabled))
  /\ UNCHANGED <<currentUser, currentProfile, initialized, remote, mounted,
                 hk, events, arg, counters, opsLeft, envLeft>>

\* ------------------------------------------------------------ the provider

\* The provider announces the stored session again (token refresh, initial
\* session, user update).
ProviderNotify ==
  /\ envLeft > 0
  /\ envLeft' = envLeft - 1
  /\ Notify(provSession)
  /\ last' = NoStep
  /\ UNCHANGED <<svc, provSession, accounts, rows, loginAttempts, mounted, hk,
                 pc, arg, counters, opsLeft>>

\* ---------------------------------------------------------- specification

Answers == {"ok", "error", "throw"}

SettingsAnswers == {"true", "false", "absent", "error", "throw"}

\* The activities that call AuthService.initialize.
InitProcs == {p \in Procs : p[2] \in {"effect", "init", "ev"}}

\* The steps of AuthService.initialize after its getSession was issued.
InitializeSteps ==
  \/ \E p \in InitProcs, r \in Answers : ISession(p, r)
  \/ \E p \in InitProcs, r \in Answers : IProfile(p, r)
  \/ \E p \in InitProcs, r \in Answers : IMake(p, r)
  \/ \E p \in InitProcs, r \in SettingsAnswers : ISettings(p, r)

\* The effect of the useAuth instances in HS.
HookSteps(HS) ==
  \/ \E h \in HS : Mount(h)
  \/ \E h \in HS, r \in Answers \cup {"refresh_error"} : HSession(h, r)
  \/ \E h \in HS : OAuth(InitOf(h), "ok")
  \/ \E h \in HS, r \in {"error", "throw"} : OAuth(InitOf(h), r)
  \/ \E h \in HS : HandleEvent(h)

SignInSteps ==
  \/ \E h \in Hooks, u \in Users : SignInCall(h, u)
  \/ \E h \in Hooks, r \in Answers : SAuth(h, r)
  \/ \E h \in Hooks, r \in Answers : SLogFail(h, r)
  \/ \E h \in Hooks, r \in Answers : SProfile(h, r)
  \/ \E h \in Hooks, r \in Answers : SMake(h, r)
  \/ \E h \in Hooks, r \in Answers : SLog(h, r)

SignOutSteps ==
  \/ \E h \in Hooks : SignOutCall(h)
  \/ \E h \in Hooks : OAuth(OpOf(h), "ok")
  \/ \E h \in Hooks, r \in {"error", "throw"} : OAuth(OpOf(h), r)

CreateUserSteps ==
  \/ \E h \in Hooks, u \in NewUsers, role \in Roles :
       CreateUserCall(h, u, role)
  \/ \E h \in Hooks, r \in Answers : CAuth(h, r)
  \/ \E h \in Hooks, r \in Answers : CUpsert(h, r)

\* One useAuth instance and the operations invoked through it.
Next ==
  \/ HookSteps({"h1"})
  \/ InitializeSteps
  \/ SignInSteps
  \/ SignOutSteps
  \/ CreateUserSteps

Spec == Init /\ [][Next]_vars

\* One useAuth instance and every operation it exposes, signUp included.
SignUpSteps ==
  \/ \E h \in Hooks, u \in NewUsers : SignUpCall(h, u)
  \/ \E h \in Hooks, r \in Answers \cup {"session"} : UAuth(h, r)

NextOps ==
  \/ HookSteps({"h1"})
  \/ InitializeSteps
  \/ SignInSteps
  \/ SignOutSteps
  \/ CreateUserSteps
  \/ SignUpSteps

SpecOps == Init /\ [][NextOps]_vars

\* The login page: its useAuth instance, the App effect and the signup-flag
\* effect of two successive mounts of the page.
SignupFlagSteps ==
  \/ \E h \in Hooks : IsSignupEnabledCall(h)
  \/ \E h \in Hooks, r \in SettingsAnswers : ESettings(h, r)

NextLogin ==
  \/ AppMount
  \/ HookSteps({"h1"})
  \/ InitializeSteps
  \/ SignupFlagSteps

SpecLogin == Init /\ [][NextLogin]_vars

\* Two useAuth instances mounted side by side and a signIn invoked through
\* either; the second instance mounts once the first has finished its mount
\* initialisation.
NextShared ==
  \/ HookSteps({"h1"})
  \/ HookSteps({"h2"}) /\ pc[InitOf("h1")] = "done"
  \/ InitializeSteps
  \/ SignInSteps

SpecShared == Init /\ [][NextShared]_vars

\* Application start: the App effect and a useAuth instance that may
\* unmount, with the provider's notifications and no operation invoked.
NextBoot ==
  \/ AppMount
  \/ HookSteps({"h1"})
  \/ \E h \in Hooks : Unmount(h)
  \/ InitializeSteps
  \/ ProviderNotify

SpecBoot == Init /\ [][NextBoot]_vars

\* Application start without unmounting.
NextStart ==
  \/ AppMount
  \/ HookSteps({"h1"})
  \/ InitializeSteps
  \/ ProviderNotify

\* The remote calls issued by initialize and by the mount initialisation are
\* answered, and a delivered event is handled.
AnswerSteps ==
  \/ InitializeSteps
  \/ \E h \in Hooks, r \in Answers : HSession(h, r)
  \/ \E h \in Hooks, r \in {"error", "throw"} : OAuth(InitOf(h), r)
  \/ \E h \in Hooks : HandleEvent(h)

Answered == WF_vars(AnswerSteps)

SpecStartFair == Init /\ [][NextStart]_vars /\ Answered

\* One useAuth instance and its operations, when the remote calls of its
\* initialisation are answered and delivered events are handled.
SpecFair == Spec /\ Answered

\* The same instance and operations with one activity in flight at a time:
\* no two asynchronous activities overlap.
InFlight == {p \in Procs : pc[p] \notin {"idle", "done"}}

Sequential == Cardinality(InFlight') <= 1

NextSeq ==
  \/ HookSteps({"h1"}) /\ Sequential
  \/ InitializeSteps /\ Sequential
  \/ SignInSteps /\ Sequential
  \/ SignOutSteps /\ Sequential
  \/ CreateUserSteps /\ Sequential

SpecSeq == Init /\ [][NextSeq]_vars

\* Every role and status of u1's row, under the mount initialisation and
\* the auth-state-change handler.
InitRoles ==
  /\ rows \in {InitRows(rs) : rs \in Roles \X Statuses}
  /\ currentUser = Null
  /\ currentProfile = NullProfile
  /\ settings = NullSettings
  /\ initialized = FALSE
  /\ accounts = Users
  /\ provSession \in Users \cup {Null}
  /\ loginAttempts = {}
  /\ mounted = [h \in Hooks |-> "new"]
  /\ hk = [h \in Hooks |-> HookInit]
  /\ events = [h \in Hooks |-> <<>>]
  /\ pc = [p \in Procs |-> "idle"]
  /\ arg = [p \in Procs |-> NoArg]
  /\ last = NoStep
  /\ sessionFetches = 0
  /\ profileLoads = 0
  /\ opsLeft = MaxOps
  /\ envLeft = MaxEnv

NextRoles ==
  \/ HookSteps({"h1"})
  \/ InitializeSteps
  \/ ProviderNotify

SpecRoles == InitRoles /\ [][NextRoles]_vars

\* -------------------------------------------------------------- properties

NoFlags == [isSuperAdmin |-> FALSE, isAdmin |-> FALSE, isEditor |-> FALSE]

\* The three role flags a hook instance shows.
FlagsOf(h) ==
  [isSuperAdmin |-> hk[h].isSuperAdmin, isAdmin |-> hk[h].isAdmin,
   isEditor |-> hk[h].isEditor]

\* C1: in every reachable state of a useAuth instance, a null profile or a
\* profile whose status is not 'active' means isSuperAdmin, isAdmin and
\* isEditor are all false.
C1_FlagsFalseUnlessActive ==
  \A h \in Hooks :
    (hk[h].profile = NullProfile \/ hk[h].profile.status # "active")
      => FlagsOf(h) = NoFlags

\* A resolved hook that shows the profile of a suspended account.
C1_Witness ==
  \E h \in Hooks :
    /\ hk[h].profile # NullProfile
    /\ hk[h].profile.status # "active"
    /\ hk[h].profile.role = "admin"
    /\ ~hk[h].initializing

\* The roles that rank at or above a role: super_admin > admin > editor > user.
RolesAtOrAbove(role) ==
  CASE role = "super_admin" -> {"super_admin"}
    [] role = "admin" -> {"super_admin", "admin"}
    [] role = "editor" -> {"super_admin", "admin", "editor"}
    [] role = "user" -> {"super_admin", "admin", "editor", "user"}

\* C2: for every profile a hook holds, isSuperAdmin is (active and role =
\* super_admin), isAdmin is (active and role in {super_admin, admin}),
\* isEditor is (active and role in {super_admin, admin, editor}), and each
\* flag equals hasRole('super_admin'), hasRole('admin'), hasRole('editor')
\* evaluated on that same profile.
C2_FlagsTruthTable ==
  \A h \in Hooks :
    LET prof == hk[h].profile
        active == prof # NullProfile /\ prof.status = "active" IN
    /\ hk[h].isSuperAdmin = (active /\ prof.role = "super_admin")
    /\ hk[h].isAdmin = (active /\ prof.role \in {"super_admin", "admin"})
    /\ hk[h].isEditor =
         (active /\ prof.role \in {"super_admin", "admin", "editor"})
    /\ hk[h].isSuperAdmin = HasRoleOf(prof, "super_admin")
    /\ hk[h].isAdmin = HasRoleOf(prof, "admin")
    /\ hk[h].isEditor = HasRoleOf(prof, "editor")

\* A hook holding an active editor's profile: editor flag only.
C2_Witness ==
  \E h \in Hooks :
    /\ hk[h].profile # NullProfile
    /\ hk[h].profile.role = "editor"
    /\ hk[h].profile.status = "active"
    /\ hk[h].isEditor
    /\ ~hk[h].isAdmin

\* C3: hasRole(X) is true exactly when a profile is cached, its status is
\* 'active' and its role ranks at or above X; with no cached profile it is
\* false for every X; and a hasRole(X) that is true for the cached role
\* stays true for every role above it.
C3_HasRoleHierarchy ==
  \A X \in Roles :
    /\ hasRole(X) = (/\ currentProfile # NullProfile
                     /\ currentProfile.status = "active"
                     /\ currentProfile.role \in RolesAtOrAbove(X))
    /\ currentProfile = NullProfile => ~hasRole(X)
    /\ (currentProfile # NullProfile /\ hasRole(X)) =>
         \A R \in RolesAtOrAbove(currentProfile.role) :
           HasRoleOf([currentProfile EXCEPT !.role = R], X)

\* An active admin is cached: editor is granted, super_admin is not.
C3_Witness ==
  /\ currentProfile # NullProfile
  /\ currentProfile.role = "admin"
  /\ currentProfile.status = "active"
  /\ hasRole("editor")
  /\ hasRole("admin")
  /\ ~hasRole("super_admin")

\* The hook instance whose activity took the step recorded in `last`.
Caller == last.p[1]

\* The step just taken completed a signOut that the provider accepted: one
\* invoked through the hook, or the one the mount initialisation makes on a
\* refresh-token error.
SignOutSucceeded ==
  /\ last.fin
  /\ \/ last.op = "signOut" /\ last.ok
     \/ last.op = "hookInit" /\ last.note = "ok"

\* C4: when a signOut call returns without error, the service's cached
\* identity and profile are null, hasRole is false for every role, and the
\* hook instance that made the call has session, authUser and profile null
\* and all three flags false.
C4_SignOutClears ==
  SignOutSucceeded =>
    /\ currentUser = Null
    /\ currentProfile = NullProfile
    /\ \A X \in Roles : ~hasRole(X)
    /\ hk[Caller].session = Null
    /\ hk[Caller].authUser = Null
    /\ hk[Caller].profile = NullProfile
    /\ FlagsOf(Caller) = NoFlags

\* A signOut invoked through the hook succeeded after initialize had loaded
\* a profile into the cache.
C4_Witness ==
  /\ last.fin
  /\ last.op = "signOut"
  /\ last.ok
  /\ initialized
  /\ profileLoads > 0
  /\ ~hk[Caller].initializing

\* A step of a signIn call on its failing path: the provider's rejection or
\* throw is consumed, or the failure's login attempt has been written.
FailingSignInStep(h) ==
  \/ pc[OpOf(h)] = "s_auth" /\ pc'[OpOf(h)] \in {"s_logfail", "idle"}
  \/ pc[OpOf(h)] = "s_logfail" /\ pc'[OpOf(h)] = "idle"

\* C5: a signIn call that the provider rejects, or whose provider call
\* throws, returns user null with an error, and none of its steps changes
\* the service's cached identity or profile or the calling hook's profile
\* and flags.
C5_FailedSignInKeepsState ==
  [][\A h \in Hooks :
       FailingSignInStep(h) =>
         /\ UNCHANGED <<currentUser, currentProfile>>
         /\ hk'[h].profile = hk[h].profile
         /\ hk'[h].isSuperAdmin = hk[h].isSuperAdmin
         /\ hk'[h].isAdmin = hk[h].isAdmin
         /\ hk'[h].isEditor = hk[h].isEditor
         /\ pc'[OpOf(h)] = "idle" =>
              /\ last'.op = "signIn"
              /\ last'.fin
              /\ ~last'.ok]_vars

\* A signIn has just failed while an active profile is cached and shown.
C5_Witness ==
  /\ last.fin
  /\ last.op = "signIn"
  /\ ~last.ok
  /\ currentUser # Null
  /\ currentProfile # NullProfile
  /\ hk[Caller].profile = currentProfile
  /\ hk[Caller].isEditor

\* C6: after a signIn succeeds for user U, the cached identity is U, the
\* cached profile is the row the call's loadUserProfile obtained for U, and
\* the calling hook's profile and flags are set from that cached profile.
C6_SignInCachesProfile ==
  (last.fin /\ last.op = "signIn" /\ last.ok) =>
    /\ currentUser = last.u
    /\ currentProfile = last.row
    /\ currentProfile # NullProfile => currentProfile.id = last.u
    /\ hk[Caller].profile = currentProfile
    /\ FlagsOf(Caller) = updateRoles(currentProfile)

\* C7 as stated: every completed signIn call has recorded a login attempt
\* for its email whose success flag is the call's outcome.
C7_EveryCompletedSignInLogged ==
  (last.fin /\ last.op = "signIn") =>
    [email |-> last.u, success |-> last.ok] \in loginAttempts

\* C7 amended: a signIn call that completes after signInWithPassword
\* answered writes no login attempt other than (its email, its outcome), has
\* that attempt recorded whenever the insert was accepted, and returns that
\* outcome; a call whose signInWithPassword threw writes no attempt.
C7_SignInLogsOutcome ==
  [][\A h \in Hooks :
       LET p == OpOf(h)
           attempt == [email |-> arg[p].u, success |-> pc[p] = "s_log"] IN
       /\ (pc[p] \in {"s_logfail", "s_log"} /\ pc'[p] = "idle") =>
            /\ loginAttempts' \subseteq loginAttempts \cup {attempt}
            /\ last'.op = "signIn" /\ last'.ok = attempt.success
            /\ last'.note = "logged" => attempt \in loginAttempts'
       /\ (pc[p] = "s_auth" /\ pc'[p] = "idle") =>
            UNCHANGED loginAttempts]_vars

\* A rejected signIn has completed and its failed attempt is recorded.
C7_Witness ==
  /\ last.fin
  /\ last.op = "signIn"
  /\ ~last.ok
  /\ last.note = "logged"
  /\ [email |-> last.u, success |-> FALSE] \in loginAttempts

\* The cached profile does not grant 'admin': there is none, its status is
\* not 'active', or its role is editor or user.
LacksAdmin ==
  \/ currentProfile = NullProfile
  \/ currentProfile.status # "active"
  \/ currentProfile.role \in {"editor", "user"}

\* C8: a createUser call made while the cached profile does not grant
\* 'admin' returns user null with the permission error and issues no remote
\* call: no identity is created and no profile row is written; and a
\* createUser call only ever reaches the provider when 'admin' was granted.
C8_CreateUserNeedsAdmin ==
  [][\A h \in Hooks :
       /\ (LacksAdmin /\ \E u \in NewUsers, role \in Roles :
                           CreateUserCall(h, u, role)) =>
            /\ UNCHANGED <<provSession, accounts, rows, loginAttempts>>
            /\ pc'[OpOf(h)] = "idle"
            /\ last'.op = "createUser"
            /\ last'.fin
            /\ ~last'.ok
            /\ last'.u = Null
       /\ (pc[OpOf(h)] = "idle" /\ pc'[OpOf(h)] = "c_auth") => ~LacksAdmin]_vars

\* A createUser call has just been denied to a cached profile that is not
\* an active admin.
C8_Witness ==
  /\ last.fin
  /\ last.op = "createUser"
  /\ ~last.ok
  /\ last.note = "denied"
  /\ currentProfile # NullProfile
  /\ accounts = Users
  /\ rows["u3"] = NullProfile

\* The awaits inside AuthService.initialize.
InitializePcs == {"i_sess", "i_prof", "i_mk", "i_set"}

\* The step calls AuthService.initialize: the App effect runs, a hook
\* mounts, or a hook's handler takes an event that carries a user.
InitializeCalled ==
  \/ pc[App] = "idle" /\ pc'[App] # "idle"
  \/ \E h \in Hooks :
       \/ mounted[h] = "new" /\ mounted'[h] = "mounted"
       \/ /\ mounted'[h] = "mounted"
          /\ Len(events'[h]) < Len(events[h])
          /\ Head(events[h]) # Null

\* C9: once initialize has completed the service stays ready whatever
\* operation runs, and every later initialize call is a no-op: it starts no
\* remote call and leaves the cache and the settings as they were.
C9_ReadyIsAbsorbing ==
  [][initialized =>
       /\ initialized'
       /\ InitializeCalled =>
            /\ UNCHANGED <<currentUser, currentProfile, settings>>
            /\ UNCHANGED <<provSession, accounts, rows, loginAttempts>>
            /\ UNCHANGED <<sessionFetches, profileLoads>>
            /\ \A p \in InitProcs :
                 pc'[p] \in InitializePcs => pc'[p] = pc[p]]_vars

\* The handler called initialize on a ready service for an event that
\* carries a user, and returned at once.
C9_Witness ==
  /\ initialized
  /\ last.fin
  /\ last.op = "event"
  /\ last.u # Null
  /\ last.note = "call"
  /\ settings.set

\* C10: over any number of initialize calls, overlapping ones included, the
\* service fetches the remote session at most once and loads the profile at
\* most once.
C10_InitializeFetchesOnce ==
  /\ sessionFetches <= 1
  /\ profileLoads <= 1

\* How far an activity is inside initialize: its awaits in program order.
InitializeRank(at) ==
  CASE at = "i_sess" -> 1
    [] at = "i_prof" -> 2
    [] at = "i_mk" -> 3
    [] at = "i_set" -> 4
    [] OTHER -> 5

\* C11: whatever the provider answers (an error result or a thrown
\* exception from the session fetch, the profile select, the profile insert
\* or the settings select), every step of an initialize call moves it on to
\* a later await or to its return, the return never raises and leaves the
\* service ready, and when the remote calls are answered every running
\* initialize call returns.
C11_InitializeNeverThrows ==
  /\ [][\A p \in InitProcs :
          (pc[p] \in InitializePcs /\ pc'[p] # pc[p]) =>
            /\ InitializeRank(pc'[p]) > InitializeRank(pc[p])
            /\ pc'[p] \notin InitializePcs =>
                 /\ initialized'
                 /\ last'.fin
                 /\ last'.op = "initialize"
                 /\ last'.p = p
                 /\ last'.note \in {"ready", "thrown"}]_vars
  /\ (\E p \in InitProcs : pc[p] \in InitializePcs)
       ~> (initialized /\ \A p \in InitProcs : pc[p] \notin InitializePcs)

\* An initialize call has returned after its session fetch threw.
C11_Witness ==
  /\ last.fin
  /\ last.op = "initialize"
  /\ last.note = "thrown"
  /\ initialized
  /\ currentUser = Null

\* The step just taken returned from an initialize call that ran to its end
\* (or to its catch) without obtaining a profile row.
InitializeFailed ==
  /\ last.fin
  /\ last.op = "initialize"
  /\ last.note \in {"ready", "thrown"}
  /\ last.row = NullProfile

\* C12 as stated: when initialize returns without a profile (the session
\* fetch failed, or the profile of the session's user could not be loaded
\* or created), the cached identity and the cached profile are both null.
C12_FailedInitializeEmptiesCache ==
  InitializeFailed =>
    /\ currentUser = Null
    /\ currentProfile = NullProfile

\* C12 amended: when an initialize call that no other call overlaps returns
\* without a profile, the cached profile is null and the cached identity is
\* the user of the session it fetched: null when the fetch failed or found
\* no session, and still that user when only the profile could not be
\* loaded or created.
C12_FailedInitializeKeepsIdentity ==
  InitializeFailed =>
    /\ currentProfile = NullProfile
    /\ currentUser = last.u
    /\ \A X \in Roles : ~hasRole(X)

\* initialize returned with a session user cached and no profile.
C12_Witness ==
  /\ InitializeFailed
  /\ last.note = "ready"
  /\ last.u # Null
  /\ currentUser = last.u
  /\ currentProfile = NullProfile

\* The activities that run loadUserProfile: initialize's callers and signIn.
LoadProcs == InitProcs \cup {OpOf(h) : h \in Hooks}

\* C13: a profile insert is only issued for an identity whose profile select
\* found no row; the row an accepted insert writes is that identity's, with
\* role 'user' and status 'active', and it is the row then cached; such a
\* profile satisfies hasRole('user') and no higher role, and a hook that
\* holds it has all three flags false.
C13_MissingProfileIsDefaultUser ==
  /\ [][\A p \in LoadProcs :
          LET u == arg[p].u
              created == [id |-> u, role |-> "user", status |-> "active"] IN
          /\ (pc[p] \in {"i_prof", "s_prof"} /\ pc'[p] \in {"i_mk", "s_mk"}) =>
               rows[u] = NullProfile
          /\ (pc[p] \in {"i_mk", "s_mk"} /\ pc'[p] # pc[p] /\ rows' # rows) =>
               /\ rows[u] = NullProfile
               /\ rows' = [rows EXCEPT ![u] = created]
               /\ currentProfile' = created
               /\ \A X \in Roles :
                    HasRoleOf(currentProfile', X) = (X = "user")
               /\ updateRoles(currentProfile') = NoFlags]_vars
  /\ [](\A h \in Hooks :
          (hk[h].profile.role = "user" /\ hk[h].profile.status = "active")
            => FlagsOf(h) = NoFlags)

\* u2 had no row: the row was inserted, cached, and a resolved hook holds it.
C13_Witness ==
  /\ rows["u2"] = [id |-> "u2", role |-> "user", status |-> "active"]
  /\ currentProfile = rows["u2"]
  /\ \E h \in Hooks : hk[h].profile = rows["u2"] /\ ~hk[h].initializing

\* The step resolves hook h for the first or a later time: its mount
\* initialisation ends, or its auth-state-change handler finishes.
Resolves(h) ==
  \/ pc[InitOf(h)] # "done" /\ pc'[InitOf(h)] = "done"
  \/ last'.fin /\ last'.p = EvOf(h) /\ last'.op \in {"event", "initialize"}

\* C14: a hook's initializing flag is true until a step that resolves the
\* hook (the end of its mount initialisation or of an auth-state-change
\* handler), false from then on whatever event, signIn or signOut follows,
\* and a mounted hook whose remote calls are answered does get resolved.
C14_InitializingOnlyUntilResolved ==
  /\ [][\A h \in Hooks :
          /\ ~hk[h].initializing => ~hk'[h].initializing
          /\ (hk[h].initializing /\ ~hk'[h].initializing) => Resolves(h)
          /\ mounted[h] = "new" => hk[h].initializing]_vars
  /\ (\E h \in Hooks : mounted[h] = "mounted" /\ hk[h].initializing)
       ~> (\A h \in Hooks : mounted[h] = "mounted" => ~hk[h].initializing)

\* A signIn succeeded through a hook that had resolved before; it is still
\* resolved.
C14_Witness ==
  /\ last.fin
  /\ last.op = "signIn"
  /\ last.ok
  /\ pc[InitOf(Caller)] = "done"
  /\ ~hk[Caller].initializing

\* A state transition of hook h is in progress: a signIn or signOut invoked
\* through it, or its auth-state-change handler, is suspended at an await.
InTransition(h) ==
  \/ pc[OpOf(h)] \in {"s_auth", "s_logfail", "s_prof", "s_mk", "s_log", "o_auth"}
  \/ pc[EvOf(h)] # "idle"

\* C15 as stated: once a hook has resolved, its loading flag is true
\* exactly while a signIn, a signOut or the handling of an
\* auth-state-change event is in progress.
C15_LoadingDuringTransitions ==
  \A h \in Hooks :
    ~hk[h].initializing => (hk[h].loading = InTransition(h))

\* C15 amended: loading and initializing are never distinct; both are true
\* until the hook's first resolution and false ever after, also while a
\* signIn, a signOut or an event's handling is in progress.
C15_LoadingMirrorsInitializing ==
  \A h \in Hooks :
    /\ hk[h].loading = hk[h].initializing
    /\ (~hk[h].initializing /\ InTransition(h)) => ~hk[h].loading

\* A resolved hook has a signIn suspended at its profile load, and loading
\* is false.
C15_Witness ==
  \E h \in Hooks :
    /\ pc[OpOf(h)] = "s_prof"
    /\ ~hk[h].initializing
    /\ ~hk[h].loading

\* C16: once a hook instance is unmounted no step writes any of its state
\* cells, and it receives no further event.
C16_NoUpdateAfterUnmount ==
  [][\A h \in Hooks :
       mounted[h] = "unmounted" =>
         /\ hk'[h] = hk[h]
         /\ events'[h] = <<>>]_vars

\* What the three guards, in both versions of App, render for hook h.
GuardsOf(h) ==
  {ProtectedRoute(hk[h]), AdminOnlyRoute(hk[h]), SuperAdminOnlyRoute(hk[h]),
   ProtectedRouteOnLoading(hk[h]), AdminOnlyRouteOnLoading(hk[h]),
   SuperAdminOnlyRouteOnLoading(hk[h])}

\* C17: while a hook's initializing flag is true, each of ProtectedRoute,
\* AdminOnlyRoute and SuperAdminOnlyRoute reading that hook renders the
\* loading indicator: neither a redirect nor its children.
C17_GuardsWaitWhileInitializing ==
  \A h \in Hooks : hk[h].initializing => GuardsOf(h) = {"loading"}

\* A hook that has not resolved already carries an editor's flags (a signIn
\* through it finished first) or none: in both cases the guards wait.
C17_Witness ==
  \E h \in Hooks :
    /\ mounted[h] = "mounted"
    /\ hk[h].initializing
    /\ hk[h].isEditor
    /\ ProtectedRoute(hk[h]) = "loading"

\* C18: once the hook is resolved, ProtectedRoute renders its children iff
\* isAdmin or isEditor and otherwise redirects to /admin/login;
\* AdminOnlyRoute renders its children iff isAdmin or isSuperAdmin and
\* otherwise redirects to /admin; SuperAdminOnlyRoute renders its children
\* iff isSuperAdmin and otherwise redirects to /admin.  Hence the team and
\* audit screens (under AdminOnlyRoute) are rendered only for an active
\* admin or super_admin profile, the system screen (under
\* SuperAdminOnlyRoute) only for an active super_admin, and no guard renders
\* its children for role 'user' or a profile that is not active.
C18_GuardsFollowFlags ==
  \A h \in Hooks :
    LET c == hk[h]
        prof == c.profile
        active == prof # NullProfile /\ prof.status = "active" IN
    ~c.initializing =>
      /\ ProtectedRoute(c) =
           IF c.isAdmin \/ c.isEditor THEN "children" ELSE "/admin/login"
      /\ AdminOnlyRoute(c) =
           IF c.isAdmin \/ c.isSuperAdmin THEN "children" ELSE "/admin"
      /\ SuperAdminOnlyRoute(c) =
           IF c.isSuperAdmin THEN "children" ELSE "/admin"
      /\ ProtectedRouteOnLoading(c) = ProtectedRoute(c)
      /\ AdminOnlyRouteOnLoading(c) = AdminOnlyRoute(c)
      /\ SuperAdminOnlyRouteOnLoading(c) = SuperAdminOnlyRoute(c)
      /\ AdminOnlyRoute(c) = "children" =>
           active /\ prof.role \in {"admin", "super_admin"}
      /\ SuperAdminOnlyRoute(c) = "children" =>
           active /\ prof.role = "super_admin"
      /\ "children" \in GuardsOf(h) => active /\ prof.role # "user"

\* A resolved hook holds an active editor's profile: the admin area is
\* rendered, the team screen redirects to /admin.
C18_Witness ==
  \E h \in Hooks :
    /\ ~hk[h].initializing
    /\ hk[h].profile # NullProfile
    /\ hk[h].profile.role = "editor"
    /\ hk[h].profile.status = "active"
    /\ ProtectedRoute(hk[h]) = "children"
    /\ AdminOnlyRoute(hk[h]) = "/admin"
    /\ SuperAdminOnlyRoute(hk[h]) = "/admin"

\* The step just taken finished the handling of an auth-state-change event:
\* at once (no user, or initialize returned immediately), or when the
\* initialize call the handler awaited returned.
EventHandled ==
  /\ last.fin
  /\ last.p[2] = "ev"
  /\ last.op \in {"event", "initialize"}

\* C19: when a mounted hook has handled an auth-state-change event, its
\* session and authUser are the event's; for an event without a user its
\* profile is null and its flags are false; for an event with a user its
\* profile is the row reloaded during the handling and its flags are those
\* of that row.
C19_EventReloadsProfile ==
  EventHandled =>
    /\ last.op = "event" =>
         /\ hk[Caller].session = last.u
         /\ hk[Caller].authUser = last.u
    /\ (last.op = "event" /\ last.u = Null) =>
         /\ hk[Caller].profile = NullProfile
         /\ FlagsOf(Caller) = NoFlags
    /\ (last.op = "initialize" \/ last.u # Null) =>
         /\ hk[Caller].profile = last.row
         /\ FlagsOf(Caller) = updateRoles(last.row)

\* C20: whatever the interleaving of overlapping initialize, signIn and
\* signOut calls, the cache they leave when all have returned is one that
\* some sequential order of them leaves.  Run one after another, these
\* calls never leave a profile cached without an identity (initialize and
\* signIn set the identity before the profile, signOut clears both), so no
\* interleaving may either.
C20_CacheIsSerializable ==
  (InFlight = {} /\ currentProfile # NullProfile) => currentUser # Null

\* The step in which the operation invoked through hook h returns to its
\* caller: its last await is answered, or it returns without awaiting.
OpReturns(h) ==
  \/ pc[OpOf(h)] # "idle" /\ pc'[OpOf(h)] = "idle"
  \/ /\ pc[OpOf(h)] = "idle" /\ pc'[OpOf(h)] = "idle"
     /\ opsLeft' < opsLeft
     /\ last'.p = OpOf(h)

\* How a step that carries a failure is recorded.
FailureNotes == {"thrown", "rejected", "denied", "error", "throw", "raised"}

\* C21: signIn, signUp, signOut and createUser, called through the hook,
\* never raise: whatever the provider answers, a throw included, the step in
\* which the call returns yields a result; when the provider rejected the
\* call, a call threw or permission was denied, that result carries the
\* error, and the user of a failed signUp, signOut or createUser result is
\* null.
C21_OperationsNeverRaise ==
  [][\A h \in Hooks :
       OpReturns(h) =>
         /\ last'.fin
         /\ last'.p = OpOf(h)
         /\ last'.op \in {"signIn", "signUp", "signOut", "createUser"}
         /\ last'.note # "raised"
         /\ last'.note \in FailureNotes => ~last'.ok
         /\ (~last'.ok /\ last'.op # "signIn") => last'.u = Null]_vars

\* A signUp whose provider call threw has returned its error result.
C21_Witness ==
  /\ last.fin
  /\ last.op = "signUp"
  /\ last.note = "thrown"
  /\ ~last.ok
  /\ last.u = Null
  /\ accounts = Users

\* C22: the signup flag is loaded lazily: an isSignupEnabled call made
\* while no settings are cached issues the system_settings select; a call
\* made once settings are cached (by initialize or by an earlier
\* isSignupEnabled) issues no remote call, leaves the settings as they are
\* and returns the cached global_signup_enabled; and cached settings are
\* never dropped.
C22_SignupFlagLoadedLazily ==
  [][/\ settings.set => settings'.set
     /\ \A h \in Hooks :
          (pc[FlagOf(h)] = "idle" /\ pc'[FlagOf(h)] # "idle") =>
            IF settings.set
            THEN /\ pc'[FlagOf(h)] = "done"
                 /\ UNCHANGED <<settings, remote>>
                 /\ last'.fin
                 /\ last'.op = "isSignupEnabled"
                 /\ last'.note =
                      SignupNote("cached", settings.global_signup_enabled)
            ELSE pc'[FlagOf(h)] = "e_set"]_vars

\* A second isSignupEnabled call has returned a disabled flag from the
\* cache that the first call filled, before initialize completed.
C22_Witness ==
  /\ last.fin
  /\ last.op = "isSignupEnabled"
  /\ last.note = "cached_false"
  /\ ~initialized
  /\ pc[FlagOf("h1")] = "done"
  /\ pc[FlagOf("h2")] = "done"

\* C23: no operation finishes with only part of its writes applied; in
\* particular a createUser call that reports success has written both the
\* identity and its user_profiles row with the requested role, and one that
\* reports an error has left no identity behind.
C23_CreateUserWritesAllOrNothing ==
  [][\A h \in Hooks :
       LET p == OpOf(h)
           u == arg[p].u IN
       (pc[p] \in {"c_auth", "c_upsert"} /\ pc'[p] = "idle") =>
          IF last'.ok
          THEN /\ u \in accounts'
               /\ rows'[u] = [id |-> u, role |-> arg[p].role,
                              status |-> "active"]
          ELSE u \notin accounts']_vars

\* C24: when the provider's signOut answers with an error or throws,
\* nothing is cleared: the step in which the call returns leaves the cached
\* identity and profile as they were and, for a call made through
\* useAuth.signOut, leaves every cell of the calling hook as it was, and the
\* result carries the error.
C24_FailedSignOutClearsNothing ==
  [][\A h \in Hooks :
       /\ (pc[OpOf(h)] = "o_auth" /\ pc'[OpOf(h)] = "idle" /\ ~last'.ok) =>
            /\ UNCHANGED <<currentUser, currentProfile, provSession>>
            /\ hk'[h] = hk[h]
            /\ last'.fin
            /\ last'.op = "signOut"
            /\ last'.note \in {"error", "throw"}
       /\ (pc[InitOf(h)] = "o_auth" /\ pc'[InitOf(h)] = "done" /\ ~last'.ok) =>
            UNCHANGED <<currentUser, currentProfile, provSession>>]_vars

\* A signOut has just failed for a hook that shows a signed-in editor.
C24_Witness ==
  /\ last.fin
  /\ last.op = "signOut"
  /\ ~last.ok
  /\ currentUser # Null
  /\ currentProfile # NullProfile
  /\ hk[Caller].session # Null
  /\ hk[Caller].profile = currentProfile
  /\ hk[Caller].isEditor

\* C25: in every reachable state of the service a cached profile belongs to
\* the cached identity: whenever the profile is non-null the identity is
\* non-null and profile.id equals the identity's id.
C25_ProfileBelongsToIdentity ==
  currentProfile # NullProfile =>
    /\ currentUser # Null
    /\ currentProfile.id = currentUser

\* No service call, no mount initialisation and no event handler is in
\* flight, and no auth-state-change event awaits its handler.
Quiescent == InFlight = {} /\ \A h \in Hooks : events[h] = <<>>

\* C26: with several useAuth instances mounted, whenever nothing is in
\* flight every mounted instance that holds a session user shows the
\* service's cached profile, and its isSuperAdmin, isAdmin and isEditor equal
\* hasRole('super_admin'), hasRole('admin') and hasRole('editor').
C26_InstancesAgreeWithCache ==
  Quiescent =>
    \A h \in Subscribed :
      hk[h].session # Null =>
        /\ hk[h].profile = currentProfile
        /\ hk[h].isSuperAdmin = hasRole("super_admin")
        /\ hk[h].isAdmin = hasRole("admin")
        /\ hk[h].isEditor = hasRole("editor")

\* C27: in every reachable state of a useAuth instance the role flags are
\* nested, isSuperAdmin implying isAdmin and isAdmin implying isEditor, and
\* a true flag implies that the hook's profile is non-null with status
\* 'active'.
C27_FlagsNested ==
  \A h \in Hooks :
    /\ hk[h].isSuperAdmin => hk[h].isAdmin
    /\ hk[h].isAdmin => hk[h].isEditor
    /\ (hk[h].isSuperAdmin \/ hk[h].isAdmin \/ hk[h].isEditor) =>
         /\ hk[h].profile # NullProfile
         /\ hk[h].profile.status = "active"

\* A hook that a signIn, not its mount initialisation, made a super
\* administrator: all three flags are set.
C27_Witness ==
  /\ last.fin
  /\ last.op = "signIn"
  /\ last.ok
  /\ hk[Caller].isSuperAdmin
  /\ hk[Caller].isAdmin
  /\ hk[Caller].isEditor
  /\ hk[Caller].profile.role = "super_admin"

\* C28: for any single resolved hook state, the login page's condition to
\* redirect to /admin and ProtectedRoute's condition to redirect to
\* /admin/login are never both true, nor are the login page's and
\* AdminLayout's, so one auth state cannot drive a redirect loop between
\* /admin/login and /admin.
C28_NoRedirectLoop ==
  \A h \in Hooks :
    (~hk[h].initializing /\ AdminLoginRedirects(hk[h])) =>
      /\ ProtectedRoute(hk[h]) = "children"
      /\ ProtectedRouteOnLoading(hk[h]) = "children"
      /\ ~AdminLayoutRedirects(hk[h])

\* The login page redirects an editor who has just signed in.
C28_Witness ==
  /\ last.fin
  /\ last.op = "signIn"
  /\ last.ok
  /\ AdminLoginRedirects(hk[Caller])
  /\ hk[Caller].profile.role = "editor"
  /\ ~hk[Caller].isAdmin

\* C29: in every reachable state of a useAuth instance loading equals
\* initializing, both start true and no step sets either back to true, so
\* each guard keyed on loading (src/App.tsx) renders what the guard of the
\* same name keyed on initializing (App as routed) renders.
C29_LoadingGuardsEquivalent ==
  /\ [](\A h \in Hooks :
          /\ hk[h].loading = hk[h].initializing
          /\ ProtectedRouteOnLoading(hk[h]) = ProtectedRoute(hk[h])
          /\ AdminOnlyRouteOnLoading(hk[h]) = AdminOnlyRoute(hk[h])
          /\ SuperAdminOnlyRouteOnLoading(hk[h]) = SuperAdminOnlyRoute(hk[h]))
  /\ [][\A h \in Hooks :
          /\ hk'[h].loading => hk[h].loading
          /\ hk'[h].initializing => hk[h].initializing]_vars

\* A resolved hook of an active admin: both versions of AdminOnlyRoute render
\* the page and both versions of SuperAdminOnlyRoute redirect.
C29_Witness ==
  \E h \in Hooks :
    /\ ~hk[h].loading
    /\ ~hk[h].initializing
    /\ hk[h].profile.role = "admin"
    /\ AdminOnlyRouteOnLoading(hk[h]) = "children"
    /\ SuperAdminOnlyRouteOnLoading(hk[h]) = "/admin"

\* C30: createUser never writes a profile whose role ranks above the
\* caller's own cached role: whatever role argument is passed, the row its
\* upsert writes has a role at or below the role of the cached profile.
C30_CreateUserNeverOutranksCaller ==
  [][\A h \in Hooks :
       LET u == arg[OpOf(h)].u IN
       (pc[OpOf(h)] = "c_upsert" /\ rows'[u] # rows[u]) =>
          /\ currentProfile # NullProfile
          /\ RoleHierarchy(rows'[u].role) <= RoleHierarchy(currentProfile.role)]_vars

====
